---- MODULE Spec2Model ----
(***************************************************************************)
(* Model of geocat.viz.util (src/src/util.py): the cosmetic axes setters,  *)
(* truncate_colormap with the process-wide colormap registry,              *)
(* set_map_boundary, and the deprecated nclize_axis / make_byr_cmap with   *)
(* the process-wide warnings filter list.                                  *)
(*                                                                         *)
(* Python values are modelled as follows.  An optional value is a sequence *)
(* of length 0 (None) or 1 (the value).  A property of the axes object is  *)
(* Unset until a setter of the axes writes it, and then holds the tuple of *)
(* arguments the setter was given.  The matplotlib / cartopy objects are   *)
(* collaborators: a setter is modelled as writing its own property only.   *)
(***************************************************************************)
EXTENDS Integers, Sequences, FiniteSets

VARIABLES pc, call, ax, raised, invoked, registry, returned, filters

vars == <<pc, call, ax, raised, invoked, registry, returned, filters>>

----------------------------------------------------------------------------
(* Bounds of the model.                                                    *)

MaxRes == 3          \* largest vertex step `res` tried
MaxPad == 2          \* the non-zero pad value tried
MaxN == 3            \* largest number of colours `n` tried
MaxCalls == 3        \* truncate_colormap calls in one run of the process
MaxFilters == 3      \* longest warnings filter list the process starts with

----------------------------------------------------------------------------
(* Python helpers.                                                         *)

None == <<>>
Some(x) == <<x>>
Unset == <<>>

NoError == "none"

\* range(a, b, s) for s # 0
PyRange(a, b, s) ==
    IF s > 0
    THEN LET n == IF b > a THEN (b - a + s - 1) \div s ELSE 0
         IN  [i \in 1..n |-> a + (i - 1) * s]
    ELSE LET n == IF a > b THEN (a - b + (0 - s) - 1) \div (0 - s) ELSE 0
         IN  [i \in 1..n |-> a + (i - 1) * s]

\* [(lon, lat) for lon in lons]
AtLat(lons, lat) == [i \in 1..Len(lons) |-> <<lons[i], lat>>]

\* [(lon, lat) for lat in lats]
AtLon(lon, lats) == [i \in 1..Len(lats) |-> <<lon, lats[i]>>]

----------------------------------------------------------------------------
(* The axes object.                                                        *)

AxFresh ==
    [title |-> Unset, lefttitle |-> Unset, righttitle |-> Unset,
     xlabel |-> Unset, ylabel |-> Unset,
     xticks |-> Unset, yticks |-> Unset,
     xticklabels |-> Unset, yticklabels |-> Unset,
     xlim |-> Unset, ylim |-> Unset,
     xmajor_formatter |-> Unset, ymajor_formatter |-> Unset,
     xminor_locator |-> Unset, yminor_locator |-> Unset,
     minorticks |-> Unset, labelsize |-> Unset,
     major_ticks |-> Unset, minor_ticks |-> Unset,
     boundary |-> Unset, extent |-> Unset]

----------------------------------------------------------------------------
(* set_map_boundary                                                        *)

LonOrderMsg == "The first longitude value must be strictly less than the second longitude value unless the region crosses over the antimeridian"
LatOrderMsg == "The first latitude value must be strictly less than the second latitude value"
LonRangeMsg == "The longitudes must be within the range [-180, 180] inclusive"
LatRangeMsg == "The latitudes must be within the range [-90, 90] inclusive"

\* Validate without the lower bound of the longitudes
Validate_NoLowerLonBound(lon_range, lat_range) ==
    IF lon_range[1] >= lon_range[2] /\ ~(lon_range[1] > 0 /\ lon_range[2] < 0)
    THEN LonOrderMsg
    ELSE IF lat_range[1] >= lat_range[2]
    THEN LatOrderMsg
    ELSE IF lon_range[1] > 180 \/ lon_range[2] > 180
    THEN LonRangeMsg
    ELSE IF \/ lat_range[1] > 90 \/ lat_range[1] < -90
            \/ lat_range[2] > 90 \/ lat_range[2] < -90
    THEN LatRangeMsg
    ELSE NoError

\* the four checks, in the order of the code; the first that fails raises
Validate(lon_range, lat_range) ==
    IF lon_range[1] >= lon_range[2] /\ ~(lon_range[1] > 0 /\ lon_range[2] < 0)
    THEN LonOrderMsg
    ELSE IF lat_range[1] >= lat_range[2]
    THEN LatOrderMsg
    ELSE IF \/ lon_range[1] > 180 \/ lon_range[1] < -180
            \/ lon_range[2] > 180 \/ lon_range[2] < -180
    THEN LonRangeMsg
    ELSE IF \/ lat_range[1] > 90 \/ lat_range[1] < -90
            \/ lat_range[2] > 90 \/ lat_range[2] < -90
    THEN LatRangeMsg
    ELSE NoError

\* the branch of the if / elif / else that builds the vertices
PathCase(lon_range) ==
    IF lon_range[1] >= 0 /\ lon_range[2] <= 0
    THEN "antimeridian"
    ELSE IF /\ (lon_range[1] = 180 \/ lon_range[1] = -180)
            /\ (lon_range[2] = 180 \/ lon_range[2] = -180)
    THEN "circle"
    ELSE "box"

\* the south edge runs on past +180 to lon_max + 360 instead of wrapping
AntimeridianVertices_NoWrap(lon_range, lat_range, res) ==
    AtLat(PyRange(lon_range[1], lon_range[2] + 360 + 1, res), lat_range[1]) \o
    AtLon(lon_range[2], PyRange(lat_range[1], lat_range[2] + 1, res)) \o
    AtLat(PyRange(lon_range[2], -180 - 1, 0 - res), lat_range[2]) \o
    AtLat(PyRange(180, lon_range[1] - 1, 0 - res), lat_range[2]) \o
    AtLon(lon_range[1], PyRange(lat_range[2], lat_range[1] - 1, 0 - res))

AntimeridianVertices(lon_range, lat_range, res) ==
    AtLat(PyRange(lon_range[1], 180 + 1, res), lat_range[1]) \o
    AtLat(PyRange(-180, lon_range[2] + 1, res), lat_range[1]) \o
    AtLon(lon_range[2], PyRange(lat_range[1], lat_range[2] + 1, res)) \o
    AtLat(PyRange(lon_range[2], -180 - 1, 0 - res), lat_range[2]) \o
    AtLat(PyRange(180, lon_range[1] - 1, 0 - res), lat_range[2]) \o
    AtLon(lon_range[1], PyRange(lat_range[2], lat_range[1] - 1, 0 - res))

CircleVertices(lat_range, res) ==
    AtLat(PyRange(0, 360 + 1, res), lat_range[1])

\* the north edge walked west to east, like the south edge
BoxVertices_NorthEdgeNotReversed(lon_range, lat_range, res) ==
    AtLat(PyRange(lon_range[1], lon_range[2] + 1, res), lat_range[1]) \o
    AtLon(lon_range[2], PyRange(lat_range[1], lat_range[2] + 1, res)) \o
    AtLat(PyRange(lon_range[1], lon_range[2] + 1, res), lat_range[2]) \o
    AtLon(lon_range[1], PyRange(lat_range[2], lat_range[1] - 1, 0 - res))

BoxVertices(lon_range, lat_range, res) ==
    AtLat(PyRange(lon_range[1], lon_range[2] + 1, res), lat_range[1]) \o
    AtLon(lon_range[2], PyRange(lat_range[1], lat_range[2] + 1, res)) \o
    AtLat(PyRange(lon_range[2], lon_range[1] - 1, 0 - res), lat_range[2]) \o
    AtLon(lon_range[1], PyRange(lat_range[2], lat_range[1] - 1, 0 - res))

\* the vertices built from the padded ranges
BuildPath_Padded(lon_range, lat_range, north_pad, south_pad, east_pad, west_pad, res) ==
    IF PathCase(lon_range) = "antimeridian"
    THEN AntimeridianVertices(lon_range,
            <<lat_range[1] - south_pad, lat_range[2] + north_pad>>, res)
    ELSE IF PathCase(lon_range) = "circle"
    THEN CircleVertices(<<lat_range[1] - south_pad, lat_range[2] + north_pad>>, res)
    ELSE BoxVertices(<<lon_range[1] - west_pad, lon_range[2] + east_pad>>,
                     <<lat_range[1] - south_pad, lat_range[2] + north_pad>>, res)

\* the vertices of the boundary path, in PlateCarree coordinates
BuildPath(lon_range, lat_range, north_pad, south_pad, east_pad, west_pad, res) ==
    IF PathCase(lon_range) = "antimeridian"
    THEN AntimeridianVertices(lon_range, lat_range, res)
    ELSE IF PathCase(lon_range) = "circle"
    THEN CircleVertices(lat_range, res)
    ELSE BoxVertices(lon_range, lat_range, res)

\* the list handed to ax.set_extent
Extent(lon_range, lat_range, north_pad, south_pad, east_pad, west_pad) ==
    <<lon_range[1] - west_pad, lon_range[2] + east_pad,
      lat_range[1] - south_pad, lat_range[2] + north_pad>>

\* set_map_boundary with the two range checks after set_boundary
set_map_boundary_RangeChecksLate(a, lon_range, lat_range, north_pad, south_pad, east_pad, west_pad, res) ==
    IF Validate(lon_range, lat_range) \in {LonOrderMsg, LatOrderMsg}
    THEN [ax |-> a, raised |-> Validate(lon_range, lat_range),
          invoked |-> {}]
    ELSE IF Validate(lon_range, lat_range) # NoError
    THEN [ax |-> [a EXCEPT
                    !.boundary = Some(BuildPath(lon_range, lat_range, north_pad,
                                                south_pad, east_pad, west_pad, res))],
          raised |-> Validate(lon_range, lat_range),
          invoked |-> {"set_boundary"}]
    ELSE [ax |-> [a EXCEPT
                    !.boundary = Some(BuildPath(lon_range, lat_range, north_pad,
                                                south_pad, east_pad, west_pad, res)),
                    !.extent = Some(Extent(lon_range, lat_range, north_pad,
                                           south_pad, east_pad, west_pad))],
          raised |-> NoError,
          invoked |-> {"set_boundary", "set_extent"}]

\* the whole function: the axes it leaves behind and the error it raises.
\* The transform of the path into the data coordinates of the axes is a
\* collaborator; the boundary is recorded by the path it was built from.
set_map_boundary(a, lon_range, lat_range, north_pad, south_pad, east_pad, west_pad, res) ==
    IF Validate(lon_range, lat_range) # NoError
    THEN [ax |-> a, raised |-> Validate(lon_range, lat_range),
          invoked |-> {}]
    ELSE [ax |-> [a EXCEPT
                    !.boundary = Some(BuildPath(lon_range, lat_range, north_pad,
                                                south_pad, east_pad, west_pad, res)),
                    !.extent = Some(Extent(lon_range, lat_range, north_pad,
                                           south_pad, east_pad, west_pad))],
          raised |-> NoError,
          invoked |-> {"set_boundary", "set_extent"}]

----------------------------------------------------------------------------
(* The cosmetic setters.  Each returns the axes it leaves behind, the      *)
(* error it raises and the setters of the axes it invoked.                 *)

add_lat_lon_ticklabels(a, zero_direction_label, dateline_direction_label) ==
    [ax |-> [a EXCEPT
               !.xmajor_formatter = Some(<<"LongitudeFormatter",
                                           zero_direction_label,
                                           dateline_direction_label>>),
               !.ymajor_formatter = Some(<<"LatitudeFormatter">>)],
     raised |-> NoError,
     invoked |-> {"xaxis.set_major_formatter", "yaxis.set_major_formatter"}]

\* lengths in points, widths in tenths of a point
add_major_minor_ticks(a, x_minor_per_major, y_minor_per_major, labelsize) ==
    [ax |-> [a EXCEPT
               !.labelsize = Some(labelsize),
               !.minorticks = Some("on"),
               !.xminor_locator = Some(<<"AutoMinorLocator", x_minor_per_major>>),
               !.yminor_locator = Some(<<"AutoMinorLocator", y_minor_per_major>>),
               !.major_ticks = Some([length |-> 8, width |-> 9]),
               !.minor_ticks = Some([length |-> 4, width |-> 4])],
     raised |-> NoError,
     invoked |-> {"tick_params", "minorticks_on",
                  "xaxis.set_minor_locator", "yaxis.set_minor_locator"}]

\* a title is recorded as <<text, fontsize, y>> with y in hundredths
set_titles_and_labels(a, maintitle, maintitlefontsize, lefttitle, lefttitlefontsize, righttitle, righttitlefontsize, xlabel, ylabel, labelfontsize) ==
    IF /\ maintitle # None
       /\ (lefttitle # None \/ righttitle # None)
       /\ maintitlefontsize = None
    THEN \* maintitlefontsize + 2 on None: nothing has been set yet
         [ax |-> a, raised |-> "TypeError", invoked |-> {}]
    ELSE LET a1 == IF maintitle = None THEN a
                   ELSE IF lefttitle # None \/ righttitle # None
                   THEN [a EXCEPT !.title = Some(<<maintitle[1],
                                                   Some(maintitlefontsize[1] + 2), 112>>)]
                   ELSE [a EXCEPT !.title = Some(<<maintitle[1],
                                                   maintitlefontsize, 104>>)]
             a2 == IF lefttitle = None THEN a1
                   ELSE [a1 EXCEPT !.lefttitle = Some(<<lefttitle[1],
                                                       lefttitlefontsize, 104>>)]
             a3 == IF righttitle = None THEN a2
                   ELSE [a2 EXCEPT !.righttitle = Some(<<righttitle[1],
                                                        righttitlefontsize, 104>>)]
             a4 == IF xlabel = None THEN a3
                   ELSE [a3 EXCEPT !.xlabel = Some(<<xlabel[1], labelfontsize>>)]
             a5 == IF ylabel = None THEN a4
                   ELSE [a4 EXCEPT !.ylabel = Some(<<ylabel[1], labelfontsize>>)]
         IN  [ax |-> a5, raised |-> NoError,
              invoked |->
                 (IF maintitle = None THEN {} ELSE {"set_title"}) \cup
                 (IF lefttitle = None THEN {} ELSE {"set_title(loc=left)"}) \cup
                 (IF righttitle = None THEN {} ELSE {"set_title(loc=right)"}) \cup
                 (IF xlabel = None THEN {} ELSE {"set_xlabel"}) \cup
                 (IF ylabel = None THEN {} ELSE {"set_ylabel"})]

\* set_ylim guarded by xlim instead of ylim
set_axes_limits_and_ticks_YlimByXlim(a, xlim, ylim, xticks, yticks, xticklabels, yticklabels) ==
    LET a1 == IF xticks = None THEN a ELSE [a EXCEPT !.xticks = Some(xticks[1])]
        a2 == IF yticks = None THEN a1 ELSE [a1 EXCEPT !.yticks = Some(yticks[1])]
        a3 == IF xticklabels = None THEN a2
              ELSE [a2 EXCEPT !.xticklabels = Some(xticklabels[1])]
        a4 == IF yticklabels = None THEN a3
              ELSE [a3 EXCEPT !.yticklabels = Some(yticklabels[1])]
        a5 == IF xlim = None THEN a4 ELSE [a4 EXCEPT !.xlim = Some(xlim[1])]
        a6 == IF xlim = None THEN a5 ELSE [a5 EXCEPT !.ylim = Some(ylim)]
    IN  [ax |-> a6, raised |-> NoError,
         invoked |->
            (IF xticks = None THEN {} ELSE {"set_xticks"}) \cup
            (IF yticks = None THEN {} ELSE {"set_yticks"}) \cup
            (IF xticklabels = None THEN {} ELSE {"set_xticklabels"}) \cup
            (IF yticklabels = None THEN {} ELSE {"set_yticklabels"}) \cup
            (IF xlim = None THEN {} ELSE {"set_xlim", "set_ylim"})]

set_axes_limits_and_ticks(a, xlim, ylim, xticks, yticks, xticklabels, yticklabels) ==
    LET a1 == IF xticks = None THEN a ELSE [a EXCEPT !.xticks = Some(xticks[1])]
        a2 == IF yticks = None THEN a1 ELSE [a1 EXCEPT !.yticks = Some(yticks[1])]
        a3 == IF xticklabels = None THEN a2
              ELSE [a2 EXCEPT !.xticklabels = Some(xticklabels[1])]
        a4 == IF yticklabels = None THEN a3
              ELSE [a3 EXCEPT !.yticklabels = Some(yticklabels[1])]
        a5 == IF xlim = None THEN a4 ELSE [a4 EXCEPT !.xlim = Some(xlim[1])]
        a6 == IF ylim = None THEN a5 ELSE [a5 EXCEPT !.ylim = Some(ylim[1])]
    IN  [ax |-> a6, raised |-> NoError,
         invoked |->
            (IF xticks = None THEN {} ELSE {"set_xticks"}) \cup
            (IF yticks = None THEN {} ELSE {"set_yticks"}) \cup
            (IF xticklabels = None THEN {} ELSE {"set_xticklabels"}) \cup
            (IF yticklabels = None THEN {} ELSE {"set_yticklabels"}) \cup
            (IF xlim = None THEN {} ELSE {"set_xlim"}) \cup
            (IF ylim = None THEN {} ELSE {"set_ylim"})]

----------------------------------------------------------------------------
(* Inputs.                                                                 *)

LonVals == {-181, -180, -170, 0, 5, 10, 170, 180, 181}
LatVals == {-91, -90, -10, 10, 60, 90, 91}
ResVals == {1, MaxRes}
PadVals == {0, MaxPad}

MapArgs ==
    [lon_range : LonVals \X LonVals, lat_range : LatVals \X LatVals,
     north_pad : PadVals, south_pad : PadVals,
     east_pad : PadVals, west_pad : PadVals, res : ResVals]

\* an axes that already carries a boundary and an extent
AxBounded ==
    set_map_boundary(AxFresh, <<-180, 180>>, <<60, 90>>, 0, 0, 0, 0, 1).ax

MapAxes == {AxFresh, AxBounded}

Opt(S) == {None} \cup {Some(x) : x \in S}

LabelArgs ==
    [zero_direction_label : Opt(BOOLEAN),
     dateline_direction_label : Opt(BOOLEAN)]

TickArgs ==
    [x_minor_per_major : Opt({3}), y_minor_per_major : Opt({3}),
     labelsize : Opt({"small"})]

TitleArgs ==
    [maintitle : Opt({"Main"}), maintitlefontsize : Opt({18}),
     lefttitle : Opt({"Left"}), lefttitlefontsize : Opt({18}),
     righttitle : Opt({"Right"}), righttitlefontsize : Opt({18}),
     xlabel : Opt({"X"}), ylabel : Opt({"Y"}), labelfontsize : Opt({16})]

LimitArgs ==
    [xlim : Opt({<<0, 360>>}), ylim : Opt({<<-90, 90>>}),
     xticks : Opt({<<0, 180, 360>>}), yticks : Opt({<<-90, 0, 90>>}),
     xticklabels : Opt({<<"0", "180", "360">>}),
     yticklabels : Opt({<<"90S", "0", "90N">>})]

\* an axes on which the four cosmetic setters have already been used
AxDecorated ==
    set_axes_limits_and_ticks(
       set_titles_and_labels(
          add_major_minor_ticks(
             add_lat_lon_ticklabels(AxFresh, Some(TRUE), Some(TRUE)).ax,
             Some(5), Some(5), Some("large")).ax,
          Some("Old"), Some(12), Some("OldLeft"), Some(12), Some("OldRight"),
          Some(12), Some("OldX"), Some("OldY"), Some(10)).ax,
       Some(<<-10, 10>>), Some(<<-5, 5>>), Some(<<-10, 10>>), Some(<<-5, 5>>),
       Some(<<"W", "E">>), Some(<<"S", "N">>)).ax

MapCalls == [fn : {"set_map_boundary"}, args : MapArgs]

CosmeticCalls ==
    [fn : {"add_lat_lon_ticklabels"}, args : LabelArgs] \cup
    [fn : {"add_major_minor_ticks"}, args : TickArgs] \cup
    [fn : {"set_titles_and_labels"}, args : TitleArgs] \cup
    [fn : {"set_axes_limits_and_ticks"}, args : LimitArgs]

CosmeticAxes == {AxFresh, AxDecorated}

----------------------------------------------------------------------------
(* The stateless functions: a caller holds an axes and the arguments of    *)
(* one call (Init), and the call runs to its end in one step.              *)

Init ==
    /\ pc = "ready"
    /\ \/ call \in MapCalls /\ ax \in MapAxes
       \/ call \in CosmeticCalls /\ ax \in CosmeticAxes
    /\ raised = NoError
    /\ invoked = {}
    /\ registry = {}
    /\ returned = <<>>
    /\ filters = <<>>

SetMapBoundary ==
    /\ pc = "ready"
    /\ call.fn = "set_map_boundary"
    /\ LET r == set_map_boundary(ax, call.args.lon_range, call.args.lat_range,
                                 call.args.north_pad, call.args.south_pad,
                                 call.args.east_pad, call.args.west_pad,
                                 call.args.res)
       IN  /\ ax' = r.ax
           /\ raised' = r.raised
           /\ invoked' = r.invoked
    /\ pc' = "done"
    /\ UNCHANGED <<call, registry, returned, filters>>

AddLatLonTicklabels ==
    /\ pc = "ready"
    /\ call.fn = "add_lat_lon_ticklabels"
    /\ LET r == add_lat_lon_ticklabels(ax, call.args.zero_direction_label,
                                       call.args.dateline_direction_label)
       IN  /\ ax' = r.ax
           /\ raised' = r.raised
           /\ invoked' = r.invoked
    /\ pc' = "done"
    /\ UNCHANGED <<call, registry, returned, filters>>

AddMajorMinorTicks ==
    /\ pc = "ready"
    /\ call.fn = "add_major_minor_ticks"
    /\ LET r == add_major_minor_ticks(ax, call.args.x_minor_per_major,
                                      call.args.y_minor_per_major,
                                      call.args.labelsize)
       IN  /\ ax' = r.ax
           /\ raised' = r.raised
           /\ invoked' = r.invoked
    /\ pc' = "done"
    /\ UNCHANGED <<call, registry, returned, filters>>

SetTitlesAndLabels ==
    /\ pc = "ready"
    /\ call.fn = "set_titles_and_labels"
    /\ LET r == set_titles_and_labels(ax, call.args.maintitle,
                   call.args.maintitlefontsize, call.args.lefttitle,
                   call.args.lefttitlefontsize, call.args.righttitle,
                   call.args.righttitlefontsize, call.args.xlabel,
                   call.args.ylabel, call.args.labelfontsize)
       IN  /\ ax' = r.ax
           /\ raised' = r.raised
           /\ invoked' = r.invoked
    /\ pc' = "done"
    /\ UNCHANGED <<call, registry, returned, filters>>

SetAxesLimitsAndTicks ==
    /\ pc = "ready"
    /\ call.fn = "set_axes_limits_and_ticks"
    /\ LET r == set_axes_limits_and_ticks(ax, call.args.xlim, call.args.ylim,
                   call.args.xticks, call.args.yticks,
                   call.args.xticklabels, call.args.yticklabels)
       IN  /\ ax' = r.ax
           /\ raised' = r.raised
           /\ invoked' = r.invoked
    /\ pc' = "done"
    /\ UNCHANGED <<call, registry, returned, filters>>

Next ==
    \/ SetMapBoundary
    \/ AddLatLonTicklabels
    \/ AddMajorMinorTicks
    \/ SetTitlesAndLabels
    \/ SetAxesLimitsAndTicks

Spec == Init /\ [][Next]_vars

----------------------------------------------------------------------------
(* truncate_colormap and the colormap registry (matplotlib.cm).            *)
(*                                                                         *)
(* A string is a tuple of its parts, the empty string the empty tuple.     *)
(* minval and maxval are in thousandths.  A colormap object is             *)
(* [id, name, colors]: id tells two objects apart, colors lists the sample *)
(* points <<source, numerator, denominator>> the colours were taken at.    *)
(* The registry is the set of its (name, colormap) entries.                *)

EmptyStr == <<>>

\* "{:.2f}".format(x): x in thousandths, the result in hundredths; the
\* inputs used have no tie to break
Fmt2(x) == (x + 5) \div 10

\* "trunc({n},{a:.2f},{b:.2f})".format(n=cmap.name, a=minval, b=maxval)
GenName(cmap_name, minval, maxval) ==
    <<"trunc", cmap_name, Fmt2(minval), Fmt2(maxval)>>

\* cmap(np.linspace(minval, maxval, n))
Samples(cmap_name, minval, maxval, n) ==
    [i \in 1..n |->
        IF n = 1 THEN <<cmap_name, minval, 1>>
        ELSE <<cmap_name, minval * (n - 1) + (i - 1) * (maxval - minval), n - 1>>]

\* a registry that keeps the colormap a name was first given
RegisterCmap_KeepFirst(reg, name, cmap) ==
    IF \E e \in reg : e.name = name
    THEN reg
    ELSE reg \cup {[name |-> name, cmap |-> cmap]}

\* a registry that adds an entry and keeps the old one of that name
RegisterCmap_Append(reg, name, cmap) ==
    reg \cup {[name |-> name, cmap |-> cmap]}

\* cm.register_cmap(name, cmap): cmap_d[name] = cmap
RegisterCmap(reg, name, cmap) ==
    {e \in reg : e.name # name} \cup {[name |-> name, cmap |-> cmap]}

\* the registry and the colormap returned; id is the identity of the new object
truncate_colormap(reg, id, cmap_name, minval, maxval, n, name) ==
    LET nm == IF name = None \/ name[1] = EmptyStr
              THEN GenName(cmap_name, minval, maxval)
              ELSE name[1]
        new_cmap == [id |-> id, name |-> nm,
                     colors |-> Samples(cmap_name, minval, maxval, n)]
    IN  [registry |-> RegisterCmap(reg, nm, new_cmap), ret |-> new_cmap]

\* plt.get_cmap(name) / cm.cmap_d[name]
Lookup(reg, name) == (CHOOSE e \in reg : e.name = name).cmap

CmapNames == {<<"viridis">>, <<"jet">>}
MinVals == {0, 2}
MaxVals == {1000}
NVals == 2..MaxN
NameVals == {None, Some(EmptyStr), Some(<<"mycmap">>)}

TruncArgs ==
    [cmap : CmapNames, minval : MinVals, maxval : MaxVals, n : NVals,
     name : NameVals]

NoCall == [fn |-> "none", args |-> <<>>]

InitCmap ==
    /\ pc = "ready"
    /\ call = NoCall
    /\ ax = AxFresh
    /\ raised = NoError
    /\ invoked = {}
    /\ registry = {}
    /\ returned = <<>>
    /\ filters = <<>>

TruncateColormap ==
    /\ Len(returned) < MaxCalls
    /\ \E args \in TruncArgs :
          LET r == truncate_colormap(registry, Len(returned) + 1, args.cmap,
                                     args.minval, args.maxval, args.n, args.name)
          IN  /\ registry' = r.registry
              /\ returned' = Append(returned, [args |-> args, cmap |-> r.ret])
              /\ call' = [fn |-> "truncate_colormap", args |-> args]
    /\ UNCHANGED <<pc, ax, raised, invoked, filters>>

NextCmap ==
    \/ TruncateColormap

SpecCmap == InitCmap /\ [][NextCmap]_vars

----------------------------------------------------------------------------
(* The deprecated functions and the warnings filter list.                  *)
(*                                                                         *)
(* A filter is [action, category]; its message, module and line number are *)
(* those simplefilter gives every filter (None, None, 0).                  *)

AlwaysDeprecation == [action |-> "always", category |-> "DeprecationWarning"]

\* list.remove(item): the first occurrence goes, if there is one
RemoveFirst(f, item) ==
    IF \E i \in 1..Len(f) : f[i] = item
    THEN LET k == CHOOSE i \in 1..Len(f) :
                     f[i] = item /\ \A j \in 1..(i - 1) : f[j] # item
         IN  SubSeq(f, 1, k - 1) \o SubSeq(f, k + 1, Len(f))
    ELSE f

\* warnings.simplefilter(action, category): a duplicate is removed and the
\* filter is inserted at the front
simplefilter(f, action, category) ==
    <<[action |-> action, category |-> category]>> \o
       RemoveFirst(f, [action |-> action, category |-> category])

\* warnings.warn(msg, DeprecationWarning): the action of the first filter
\* whose category DeprecationWarning is a subclass of
warn(f) ==
    IF \E i \in 1..Len(f) : f[i].category \in {"DeprecationWarning", "Warning"}
    THEN f[CHOOSE i \in 1..Len(f) :
              /\ f[i].category \in {"DeprecationWarning", "Warning"}
              /\ \A j \in 1..(i - 1) :
                    f[j].category \notin {"DeprecationWarning", "Warning"}].action
    ELSE "default"

\* filters.pop(0)
pop0(f) == Tail(f)

\* simplefilter / warn / pop(0), as both deprecated functions do it
DeprecationNotice(f) ==
    LET f1 == simplefilter(f, "always", "DeprecationWarning")
    IN  IF warn(f1) = "error"
        THEN [filters |-> f1, raised |-> "DeprecationWarning"]
        ELSE [filters |-> pop0(f1), raised |-> NoError]

nclize_axis(f, a, minor_per_major) ==
    LET d == DeprecationNotice(f)
        t == add_major_minor_ticks(a, minor_per_major, minor_per_major,
                                   Some("small"))
    IN  IF d.raised # NoError
        THEN [filters |-> d.filters, ax |-> a, raised |-> d.raised,
              invoked |-> {}]
        ELSE [filters |-> d.filters, ax |-> t.ax, raised |-> NoError,
              invoked |-> t.invoked]

make_byr_cmap(f) == DeprecationNotice(f)

FilterEntries ==
    {AlwaysDeprecation,
     [action |-> "ignore", category |-> "DeprecationWarning"],
     [action |-> "error", category |-> "Warning"],
     [action |-> "default", category |-> "UserWarning"]}

\* the filter lists a process can hold: no filter twice
FilterLists ==
    {f \in UNION {[1..n -> FilterEntries] : n \in 0..MaxFilters} :
        \A i, j \in 1..Len(f) : i # j => f[i] # f[j]}

InitWarn ==
    /\ pc = "ready"
    /\ call = NoCall
    /\ ax = AxFresh
    /\ raised = NoError
    /\ invoked = {}
    /\ registry = {}
    /\ returned = <<>>
    /\ filters \in FilterLists

NclizeAxis ==
    /\ \E m \in Opt({2, 3}) :
          LET r == nclize_axis(filters, ax, m)
          IN  /\ filters' = r.filters
              /\ ax' = r.ax
              /\ raised' = r.raised
              /\ invoked' = r.invoked
              /\ call' = [fn |-> "nclize_axis", args |-> [minor_per_major |-> m]]
    /\ UNCHANGED <<pc, registry, returned>>

MakeByrCmap ==
    /\ LET r == make_byr_cmap(filters)
       IN  /\ filters' = r.filters
           /\ raised' = r.raised
    /\ invoked' = {}
    /\ call' = [fn |-> "make_byr_cmap", args |-> <<>>]
    /\ UNCHANGED <<pc, ax, registry, returned>>

NextWarn ==
    \/ NclizeAxis
    \/ MakeByrCmap

SpecWarn == InitWarn /\ [][NextWarn]_vars

----------------------------------------------------------------------------
(* Properties of set_map_boundary.                                         *)

MapDone == pc = "done" /\ call.fn = "set_map_boundary"
MapOk == MapDone /\ raised = NoError
Lon == call.args.lon_range
Lat == call.args.lat_range
Path == ax.boundary[1]

\* the four rules of the validation, as the specification states them
LonOrderViolated == Lon[1] >= Lon[2] /\ ~(Lon[1] > 0 /\ Lon[2] < 0)
LatOrderViolated == Lat[1] >= Lat[2]
LonRangeViolated == \E i \in 1..2 : Lon[i] < -180 \/ Lon[i] > 180
LatRangeViolated == \E i \in 1..2 : Lat[i] < -90 \/ Lat[i] > 90

\* C1: set_map_boundary raises a value error exactly when one of the four
\* rules (longitude order unless the pair crosses the antimeridian, latitude
\* order, longitudes in [-180, 180], latitudes in [-90, 90]) is violated, and
\* the message names a rule the input really violates.
C1_ValidationIffRuleViolated ==
    MapDone =>
       /\ raised \in {NoError, LonOrderMsg, LatOrderMsg, LonRangeMsg, LatRangeMsg}
       /\ (raised # NoError) <=>
              (\/ LonOrderViolated \/ LatOrderViolated
               \/ LonRangeViolated \/ LatRangeViolated)
       /\ (raised = LonOrderMsg => LonOrderViolated)
       /\ (raised = LatOrderMsg => LatOrderViolated)
       /\ (raised = LonRangeMsg => LonRangeViolated)
       /\ (raised = LatRangeMsg => LatRangeViolated)

\* an inverted pair that crosses the antimeridian passes the longitude rules,
\* and the call is refused for the latitude 91 alone
C1_Witness ==
    /\ MapDone
    /\ Lon = <<170, -170>>
    /\ Lat = <<60, 91>>
    /\ raised = LatRangeMsg

\* C2: a call of set_map_boundary that fails validation leaves the axes as
\* they were: neither set_boundary nor set_extent has been invoked.
C2_NoMutationOnValidationError ==
    [][(pc = "ready" /\ call.fn = "set_map_boundary" /\ pc' = "done"
        /\ raised' # NoError)
       => (ax' = ax /\ invoked' = {})]_vars

\* the last of the four checks refuses a call on an axes that carries a
\* boundary, and the boundary is still there
C2_Witness ==
    /\ MapDone
    /\ raised = LatRangeMsg
    /\ Lon = <<-170, 10>>
    /\ ax = AxBounded

\* the ring of the full-circle case: every vertex at lat_min, longitudes
\* 0, res, 2 res, ... up to 360
IsRing(v, lat_min, res) ==
    /\ Len(v) = (360 \div res) + 1
    /\ \A i \in 1..Len(v) : v[i] = <<(i - 1) * res, lat_min>>

\* C3: for lon_range (180, -180) and (-180, 180) the boundary is the ring at
\* latitude lat_min sweeping the longitudes 0 to 360 in steps of res.
C3_FullCircleRing ==
    (MapOk /\ Lon \in {<<180, -180>>, <<-180, 180>>})
       => IsRing(Path, Lat[1], call.args.res)

\* a sequence of longitudes that rises (weakly) to a peak and then falls
RisesThenFalls(v) ==
    \E k \in 1..Len(v) :
       /\ \A i \in k..(Len(v) - 1) : v[i][1] >= v[i + 1][1]
       /\ \A i \in 1..(k - 1) : v[i][1] <= v[i + 1][1]

BoundingBoxIs(v, lon_range, lat_range) ==
    /\ \A i \in 1..Len(v) :
          /\ lon_range[1] <= v[i][1] /\ v[i][1] <= lon_range[2]
          /\ lat_range[1] <= v[i][2] /\ v[i][2] <= lat_range[2]
    /\ \E i \in 1..Len(v) : v[i][1] = lon_range[1]
    /\ \E i \in 1..Len(v) : v[i][1] = lon_range[2]
    /\ \E i \in 1..Len(v) : v[i][2] = lat_range[1]
    /\ \E i \in 1..Len(v) : v[i][2] = lat_range[2]

\* the sequence returns to the vertex it started from
Closed(v) == Len(v) > 0 /\ v[Len(v)] = v[1]

\* C4 as stated: for every valid lon_min < lon_max, lat_min < lat_max and
\* res the path is closed, its longitudes rise then fall and its bounding
\* box is the input ranges.
C4_AsStated ==
    (MapOk /\ Lon[1] < Lon[2])
       => /\ Closed(Path)
          /\ RisesThenFalls(Path)
          /\ BoundingBoxIs(Path, Lon, Lat)

\* C4 amended: on the ordinary-box branch the path starts in the south-west
\* corner, its longitudes rise then fall, its bounding box is the input
\* ranges, and it ends on the west edge less than one step north of the
\* corner it started from: at that corner exactly when res divides
\* lat_max - lat_min.
C4_BoxPath ==
    (MapOk /\ PathCase(Lon) = "box")
       => /\ Lon[1] < Lon[2]
          /\ Path[1] = <<Lon[1], Lat[1]>>
          /\ RisesThenFalls(Path)
          /\ BoundingBoxIs(Path, Lon, Lat)
          /\ Path[Len(Path)][1] = Lon[1]
          /\ Path[Len(Path)][2] >= Lat[1]
          /\ Path[Len(Path)][2] < Lat[1] + call.args.res
          /\ Closed(Path) <=> ((Lat[2] - Lat[1]) % call.args.res = 0)

\* a box whose latitude span the step does not divide: the path stops short
\* of the corner it started from
C4_Witness ==
    /\ MapOk
    /\ Lon = <<5, 10>>
    /\ Lat = <<-10, 60>>
    /\ call.args.res = MaxRes
    /\ ~Closed(Path)

\* C5: on an accepted antimeridian-crossing input every longitude of the
\* path is in [-180, 180]; the south edge runs from lon_min up towards +180
\* and continues at -180, the north edge runs from lon_max down to -180 and
\* continues at +180 back towards lon_min.
C5_AntimeridianPath ==
    (MapOk /\ Lon[1] > 0 /\ Lon[2] < 0)
       => /\ \A i \in 1..Len(Path) : Path[i][1] >= -180 /\ Path[i][1] <= 180
          /\ Path[1] = <<Lon[1], Lat[1]>>
          /\ \E k \in 1..(Len(Path) - 1) :
                /\ Path[k + 1] = <<-180, Lat[1]>>
                /\ Path[k][2] = Lat[1]
                /\ Path[k][1] > 180 - call.args.res
                /\ \A i \in 1..(k - 1) :
                      Path[i][2] = Lat[1] /\ Path[i][1] < Path[i + 1][1]
          /\ \E m \in 1..(Len(Path) - 1) :
                /\ Path[m + 1] = <<180, Lat[2]>>
                /\ Path[m][2] = Lat[2]
                /\ Path[m][1] < -180 + call.args.res
                /\ Path[m][1] <= Lon[2]
          /\ Path[Len(Path)][1] = Lon[1]

\* (170, -170) with a step that does not land on 180: the south edge stops
\* at 179 and continues at -180
C5_Witness ==
    /\ MapOk
    /\ Lon = <<170, -170>>
    /\ Lat = <<-10, 10>>
    /\ call.args.res = MaxRes
    /\ \E k \in 1..(Len(Path) - 1) :
          Path[k][1] > 0 /\ Path[k + 1] = <<-180, -10>>

PadTuples == PadVals \X PadVals \X PadVals \X PadVals

\* C6: the extent requested is [lon_min - west_pad, lon_max + east_pad,
\* lat_min - south_pad, lat_max + north_pad], and the boundary is the one
\* the same call builds with any other four pads.
C6_PadsOnlyInExtent ==
    MapOk =>
       /\ ax.extent = Some(<<Lon[1] - call.args.west_pad,
                             Lon[2] + call.args.east_pad,
                             Lat[1] - call.args.south_pad,
                             Lat[2] + call.args.north_pad>>)
       /\ \A p \in PadTuples :
             set_map_boundary(AxFresh, Lon, Lat, p[1], p[2], p[3], p[4],
                              call.args.res).ax.boundary = ax.boundary

\* a call with four non-zero pads on a box
C6_Witness ==
    /\ MapOk
    /\ Lon = <<-170, 10>>
    /\ Lat = <<-10, 60>>
    /\ call.args.north_pad = MaxPad /\ call.args.south_pad = MaxPad
    /\ call.args.east_pad = MaxPad /\ call.args.west_pad = MaxPad
    /\ ax.extent = Some(<<-170 - MaxPad, 10 + MaxPad, -10 - MaxPad, 60 + MaxPad>>)

----------------------------------------------------------------------------
(* Properties of the cosmetic setters.                                     *)

CosmeticFns ==
    {"add_lat_lon_ticklabels", "add_major_minor_ticks",
     "set_titles_and_labels", "set_axes_limits_and_ticks"}

AllNone(args) == \A f \in DOMAIN args : args[f] = None

\* the property of the axes a parameter is written to, and the setter used
PropertyOf ==
    [maintitle |-> "title", lefttitle |-> "lefttitle",
     righttitle |-> "righttitle", xlabel |-> "xlabel", ylabel |-> "ylabel",
     xlim |-> "xlim", ylim |-> "ylim", xticks |-> "xticks",
     yticks |-> "yticks", xticklabels |-> "xticklabels",
     yticklabels |-> "yticklabels"]

SetterOf ==
    [maintitle |-> "set_title", lefttitle |-> "set_title(loc=left)",
     righttitle |-> "set_title(loc=right)", xlabel |-> "set_xlabel",
     ylabel |-> "set_ylabel", xlim |-> "set_xlim", ylim |-> "set_ylim",
     xticks |-> "set_xticks", yticks |-> "set_yticks",
     xticklabels |-> "set_xticklabels", yticklabels |-> "set_yticklabels"]

CosmeticCallRuns(fns) == pc = "ready" /\ call.fn \in fns /\ pc' = "done"

\* C9 as stated: each of the four cosmetic setters, called with None for
\* every optional parameter, invokes no setter and leaves the axes unchanged.
C9_AsStated ==
    [][(CosmeticCallRuns(CosmeticFns) /\ AllNone(call.args))
       => (ax' = ax /\ invoked' = {})]_vars

\* C9 amended: set_titles_and_labels and set_axes_limits_and_ticks, called
\* with None for every optional parameter, invoke no setter and leave the
\* axes unchanged, and each None title, label, tick, tick-label or limit
\* parameter leaves its own property unchanged whatever the others are.
C9_NoneIsNoOp ==
    [][CosmeticCallRuns({"set_titles_and_labels", "set_axes_limits_and_ticks"})
       => /\ AllNone(call.args) => (ax' = ax /\ invoked' = {})
          /\ \A f \in DOMAIN call.args \cap DOMAIN PropertyOf :
                call.args[f] = None
                   => /\ ax'[PropertyOf[f]] = ax[PropertyOf[f]]
                      /\ SetterOf[f] \notin invoked']_vars

\* set_axes_limits_and_ticks with ylim None and everything else given, on an
\* axes that had limits: the y limits are the old ones, the rest is new
C9_Witness ==
    /\ pc = "done"
    /\ call.fn = "set_axes_limits_and_ticks"
    /\ call.args.ylim = None
    /\ call.args.xlim = Some(<<0, 360>>)
    /\ ax.xlim = Some(<<0, 360>>)
    /\ ax.ylim = AxDecorated.ylim
    /\ ax.ylim # Unset
    /\ "set_ylim" \notin invoked

----------------------------------------------------------------------------
(* Properties of truncate_colormap.                                        *)

RegisteredName(i) == returned[i].cmap.name

\* two colormap objects with the same name and the same colours
SameMap(a, b) == a.name = b.name /\ a.colors = b.colors

\* C7 as stated: the name a call registered its colormap under resolves to
\* the colormap that call returned, after any further calls with other
\* arguments.
C7_AsStated ==
    \A i \in 1..Len(returned) :
       (\A j \in (i + 1)..Len(returned) : returned[j].args # returned[i].args)
          => SameMap(Lookup(registry, RegisteredName(i)), returned[i].cmap)

\* C7 amended: the name a call registered its colormap under resolves to the
\* colormap returned by the latest call that registered under that name: to
\* the colormap of this call exactly as long as no later call has used the
\* same name.
C7_LookupResolvesToLatest ==
    \A i \in 1..Len(returned) :
       /\ \E e \in registry : e.name = RegisteredName(i)
       /\ (Lookup(registry, RegisteredName(i)) = returned[i].cmap)
             <=> (\A j \in (i + 1)..Len(returned) :
                     RegisteredName(j) # RegisteredName(i))

\* two calls that differ in n alone share the generated name; the name
\* resolves to the colormap of the second
C7_Witness ==
    /\ Len(returned) >= 2
    /\ returned[1].args.name = None /\ returned[2].args.name = None
    /\ returned[1].args.n # returned[2].args.n
    /\ RegisteredName(1) = RegisteredName(2)
    /\ Lookup(registry, RegisteredName(1)) = returned[2].cmap
    /\ returned[2].cmap # returned[1].cmap

SameInputs(a, b) ==
    /\ a.cmap = b.cmap /\ a.minval = b.minval
    /\ a.maxval = b.maxval /\ a.n = b.n

\* C8: two calls with identical (cmap, minval, maxval, n) and no explicit
\* name register under the same generated name, and the registry holds one
\* entry for that name.
C8_NamingIdempotent ==
    \A i, j \in 1..Len(returned) :
       (/\ SameInputs(returned[i].args, returned[j].args)
        /\ returned[i].args.name = None /\ returned[j].args.name = None)
          => /\ RegisteredName(i) = RegisteredName(j)
             /\ Cardinality({e \in registry : e.name = RegisteredName(i)}) = 1

\* the same call made twice
C8_Witness ==
    /\ Len(returned) >= 2
    /\ returned[1].args = returned[2].args
    /\ returned[1].args.name = None
    /\ returned[1].cmap # returned[2].cmap
    /\ Cardinality({e \in registry : e.name = RegisteredName(1)}) = 1

----------------------------------------------------------------------------
(* Properties of the deprecated functions.                                 *)

\* C10: nclize_axis and make_byr_cmap leave the warnings filter list as it
\* was, entry for entry and in order, whatever the list held before.
C10_FiltersUnchanged == [][filters' = filters]_vars

====
